---- MODULE Spec2Model ----
(***************************************************************************)
(* Forward/backward operation abstraction of DLFS.                         *)
(*   src/library/base.py                      Operation, ParamOperation,   *)
(*                                            WeightMultiply, BiasAdd,     *)
(*                                            Sigmoid, Linear              *)
(*   src/fundamentals/library/operations.py   Operation, ParamOperation    *)
(*                                                                         *)
(* One operation instance is modelled as a record of its Python            *)
(* attributes; an attribute that has not been assigned is Absent.  Arrays  *)
(* are 2-D matrices (sequences of rows) of integers: the element type of   *)
(* the source is floating point, the model keeps shapes and exact integer  *)
(* arithmetic.                                                             *)
(***************************************************************************)
EXTENDS Integers, Sequences, FiniteSets, TLC

VARIABLES
    inst,       \* the operation instance: its class and its attributes
    last,       \* the most recent call: operation, class, error raised, argument
    ret,        \* the value the most recent call returned (Absent if it raised)
    outputFor   \* history: the input from which inst.output was computed

vars == <<inst, last, ret, outputFor>>

(* ------------------------------ bounds --------------------------------- *)
MaxRows == 2
MaxCols == 2
MaxVal  == 1

(* ------------------------------ arrays --------------------------------- *)
Absent == <<>>

Shapes == (1..MaxRows) \X (1..MaxCols)

Shape(a) == <<Len(a), Len(a[1])>>

Fill(s, v) == [i \in 1..s[1] |-> [j \in 1..s[2] |-> v]]

ArraysOfShape(s) == [1..s[1] -> [1..s[2] -> 0..MaxVal]]

Arrays == UNION {ArraysOfShape(s) : s \in Shapes}

\* shapes of the arrays passed to and returned by the calls: row and
\* column vectors, enough for every pair of equal and of different shapes
CallShapes == {<<r, 1>> : r \in 1..MaxRows} \cup {<<1, c>> : c \in 1..MaxCols}

\* arrays passed to forward and backward
Inputs == {Fill(s, 1) : s \in CallShapes}

\* arrays passed to the constructors
Params == {Fill(s, MaxVal) : s \in CallShapes}

Ret(a) == [err |-> "none", val |-> a]

Raise(e) == [err |-> e, val |-> Absent]

RECURSIVE SumTo(_, _)
SumTo(f, n) == IF n = 0 THEN 0 ELSE f[n] + SumTo(f, n - 1)

\* np.transpose(a, (1, 0))
Transpose(a) == [j \in 1..Len(a[1]) |-> [i \in 1..Len(a) |-> a[i][j]]]

\* np.dot on 2-D arrays: inner dimensions must agree
Dot(a, b) ==
    IF Len(a[1]) # Len(b)
    THEN Raise("ValueError")
    ELSE Ret([i \in 1..Len(a) |-> [j \in 1..Len(b[1]) |->
                SumTo([k \in 1..Len(b) |-> a[i][k] * b[k][j]], Len(b))]])

\* numpy broadcasting of two 2-D shapes: per axis equal, or one of them 1
Broadcastable(s, t) ==
    /\ (s[1] = t[1] \/ s[1] = 1 \/ t[1] = 1)
    /\ (s[2] = t[2] \/ s[2] = 1 \/ t[2] = 1)

Max(m, n) == IF m >= n THEN m ELSE n

BroadcastShape(s, t) == <<Max(s[1], t[1]), Max(s[2], t[2])>>

At(a, i, j) == a[IF Len(a) = 1 THEN 1 ELSE i][IF Len(a[1]) = 1 THEN 1 ELSE j]

\* elementwise a + b with broadcasting
Add(a, b) ==
    IF ~Broadcastable(Shape(a), Shape(b))
    THEN Raise("ValueError")
    ELSE LET s == BroadcastShape(Shape(a), Shape(b))
         IN  Ret([i \in 1..s[1] |-> [j \in 1..s[2] |-> At(a, i, j) + At(b, i, j)]])

\* elementwise a * b with broadcasting
Mul(a, b) ==
    IF ~Broadcastable(Shape(a), Shape(b))
    THEN Raise("ValueError")
    ELSE LET s == BroadcastShape(Shape(a), Shape(b))
         IN  Ret([i \in 1..s[1] |-> [j \in 1..s[2] |-> At(a, i, j) * At(b, i, j)]])

\* np.ones_like(a)
OnesLike(a) == Fill(Shape(a), 1)

\* np.sum(a, axis=0): one entry per column
SumAxis0(a) == [j \in 1..Len(a[1]) |-> SumTo([i \in 1..Len(a) |-> a[i][j]], Len(a))]

\* v.reshape(1, n) of a 1-D array v
Reshape1(v, n) == IF Len(v) = n THEN Ret(<<v>>) ELSE Raise("ValueError")

(* ------------------------------ classes -------------------------------- *)
Libs == {"library", "fundamentals"}

\* classes whose backward is ParamOperation.backward
ParamClasses == {"ParamOperation", "WeightMultiply", "BiasAdd", "SubParamOperation"}

\* the four concrete operations of src/library/base.py
ConcreteClasses == {"WeightMultiply", "BiasAdd", "Sigmoid", "Linear"}

\* classes written by a user of the library: they supply the hooks themselves
SubClasses == {"SubOperation", "SubParamOperation"}

NoInstance ==
    [cls |-> "none", lib |-> "library", input |-> Absent, input_ |-> Absent,
     output |-> Absent, input_grad |-> Absent, param |-> Absent,
     param_grad |-> Absent]

NewInstance(cls, lib) == [NoInstance EXCEPT !.cls = cls, !.lib = lib]

Call(op, cls, err, arg) == [op |-> op, cls |-> cls, err |-> err, arg |-> arg]

(* --------------------------- shape assertion --------------------------- *)
assert_same_shape(array, array_grad) == Shape(array) = Shape(array_grad)

(* ------------------------------- hooks --------------------------------- *)
\* what a hook supplied by a user-written subclass may do: return an array
\* of any shape, or raise
SubclassHook == {Raise("HookError")} \cup {Ret(Fill(s, 0)) : s \in CallShapes}

\* 1.0 / (1.0 + np.exp(-1.0 * v)), in thousandths, for the integers the
\* model's arrays hold
Logistic(v) == CASE v = 0 -> 500 [] v = 1 -> 731 [] v = 2 -> 881 [] OTHER -> 1000

\* 1.0 - a, elementwise
OneMinus(a) == [i \in 1..Len(a) |-> [j \in 1..Len(a[1]) |-> 1 - a[i][j]]]

WeightMultiply_output(self) ==
    IF self.input_ = Absent THEN Raise("AttributeError")
    ELSE Dot(self.input_, self.param)

WeightMultiply_input_grad(self, output_grad) ==
    Dot(output_grad, Transpose(self.param))

WeightMultiply_param_grad(self, output_grad) ==
    IF self.input_ = Absent THEN Raise("AttributeError")
    ELSE Dot(Transpose(self.input_), output_grad)

BiasAdd_output(self) ==
    IF self.input_ = Absent THEN Raise("AttributeError")
    ELSE Add(self.input_, self.param)

BiasAdd_input_grad(self, output_grad) ==
    IF self.input_ = Absent THEN Raise("AttributeError")
    ELSE Mul(OnesLike(self.input_), output_grad)

\* variant: the parameter itself in place of np.ones_like(self.param)
BiasAdd_param_grad_noones(self, output_grad) ==
    LET param_grad == Mul(self.param, output_grad)
    IN  IF param_grad.err # "none" THEN param_grad
        ELSE Reshape1(SumAxis0(param_grad.val), Shape(param_grad.val)[2])

BiasAdd_param_grad(self, output_grad) ==
    LET param_grad == Mul(OnesLike(self.param), output_grad)
    IN  IF param_grad.err # "none" THEN param_grad
        ELSE Reshape1(SumAxis0(param_grad.val), Shape(param_grad.val)[2])

Sigmoid_output(self) ==
    IF self.input_ = Absent THEN Raise("AttributeError")
    ELSE Ret([i \in 1..Len(self.input_) |->
               [j \in 1..Len(self.input_[1]) |-> Logistic(self.input_[i][j])]])

Sigmoid_input_grad(self, output_grad) ==
    LET sigmoid_backward == Mul(self.output, OneMinus(self.output))
    IN  IF sigmoid_backward.err # "none" THEN sigmoid_backward
        ELSE Mul(sigmoid_backward.val, output_grad)

Linear_output(self) ==
    IF self.input_ = Absent THEN Raise("AttributeError")
    ELSE Ret(self.input_)

Linear_input_grad(self, output_grad) == Ret(output_grad)

\* self._output(): the set of outcomes of the call, by class of self
output_hook(self) ==
    CASE self.cls = "WeightMultiply" -> {WeightMultiply_output(self)}
      [] self.cls = "BiasAdd"        -> {BiasAdd_output(self)}
      [] self.cls = "Sigmoid"        -> {Sigmoid_output(self)}
      [] self.cls = "Linear"         -> {Linear_output(self)}
      [] self.cls \in SubClasses     -> SubclassHook
      [] OTHER                       -> {Raise("NotImplementedError")}

\* self._input_grad(output_grad)
input_grad_hook(self, output_grad) ==
    CASE self.cls = "WeightMultiply" -> {WeightMultiply_input_grad(self, output_grad)}
      [] self.cls = "BiasAdd"        -> {BiasAdd_input_grad(self, output_grad)}
      [] self.cls = "Sigmoid"        -> {Sigmoid_input_grad(self, output_grad)}
      [] self.cls = "Linear"         -> {Linear_input_grad(self, output_grad)}
      [] self.cls \in SubClasses     -> SubclassHook
      [] OTHER                       -> {Raise("NotImplementedError")}

\* self._param_grad(output_grad)
param_grad_hook(self, output_grad) ==
    CASE self.cls = "WeightMultiply"    -> {WeightMultiply_param_grad(self, output_grad)}
      [] self.cls = "BiasAdd"           -> {BiasAdd_param_grad(self, output_grad)}
      [] self.cls = "SubParamOperation" -> SubclassHook
      [] OTHER                          -> {Raise("NotImplementedError")}

(* ----------------------------- constructors ---------------------------- *)
\* ParamOperation.__init__: super().__init_() raises before self.param = param
ParamOperation_init(self, param) == Raise("AttributeError")

\* BiasAdd.__init__: assert B.shape[0] == 1, then ParamOperation.__init__
BiasAdd_init(self, B) ==
    IF Shape(B)[1] # 1 THEN Raise("AssertionError")
    ELSE ParamOperation_init(self, B)

\* outcome of cls(param): err, and in val the new instance (Absent if none)
Constructor(cls, lib, param) ==
    LET self == NewInstance(cls, lib)
    IN  CASE cls \in {"Operation", "Sigmoid", "Linear", "SubOperation"} -> Ret(self)
          [] cls = "SubParamOperation" -> Ret([self EXCEPT !.param = param])
          [] cls = "BiasAdd"           -> BiasAdd_init(self, param)
          [] OTHER                     -> ParamOperation_init(self, param)

ClassesOf(lib) ==
    IF lib = "library"
    THEN {"Operation", "ParamOperation", "WeightMultiply", "BiasAdd", "Sigmoid",
          "Linear", "SubOperation", "SubParamOperation"}
    ELSE {"Operation", "ParamOperation", "SubOperation", "SubParamOperation"}

TakesParam(cls) == cls \in ParamClasses

Construct(cls, lib, param) ==
    /\ inst.cls = "none"
    /\ cls \in ClassesOf(lib)
    /\ TakesParam(cls) <=> param # Absent
    /\ LET r == Constructor(cls, lib, param)
       IN  /\ inst' = IF r.err = "none" THEN r.val ELSE inst
           /\ last' = Call("init", cls, r.err, param)
    /\ ret' = Absent
    /\ UNCHANGED outputFor

(* ------------------------------- forward ------------------------------- *)
\* variant: the input stored under the attribute name input_
forward_input_typo(input_) ==
    /\ inst.cls # "none"
    /\ LET self == [inst EXCEPT !.input_ = input_]
       IN  \E r \in output_hook(self) :
             /\ inst' = IF r.err = "none" THEN [self EXCEPT !.output = r.val] ELSE self
             /\ outputFor' = IF r.err = "none" THEN input_ ELSE outputFor
             /\ ret' = r.val
             /\ last' = Call("forward", inst.cls, r.err, input_)

\* Operation.forward: self.input = input_; self.output = self._output()
forward(input_) ==
    /\ inst.cls # "none"
    /\ LET self == [inst EXCEPT !.input = input_]
       IN  \E r \in output_hook(self) :
             /\ inst' = IF r.err = "none" THEN [self EXCEPT !.output = r.val] ELSE self
             /\ outputFor' = IF r.err = "none" THEN input_ ELSE outputFor
             /\ ret' = r.val
             /\ last' = Call("forward", inst.cls, r.err, input_)

(* ------------------------------- backward ------------------------------ *)
\* variant: the input gradient computed and cached before the first check
Operation_backward_early(self, output_grad) ==
    IF self.output = Absent THEN {[err |-> "AttributeError", self |-> self]}
    ELSE {IF r.err # "none" THEN [err |-> r.err, self |-> self]
          ELSE LET s1 == [self EXCEPT !.input_grad = r.val]
               IN  IF ~assert_same_shape(s1.output, output_grad)
                   THEN [err |-> "AssertionError", self |-> s1]
                   ELSE IF ~assert_same_shape(s1.input, s1.input_grad)
                   THEN [err |-> "AssertionError", self |-> s1]
                   ELSE [err |-> "none", self |-> s1]
          : r \in input_grad_hook(self, output_grad)}

\* Operation.backward of src/library/base.py: the set of outcomes
\* [err, self] of self.backward(output_grad)
Operation_backward(self, output_grad) ==
    IF self.output = Absent THEN {[err |-> "AttributeError", self |-> self]}
    ELSE IF ~assert_same_shape(self.output, output_grad)
    THEN {[err |-> "AssertionError", self |-> self]}
    ELSE {IF r.err # "none" THEN [err |-> r.err, self |-> self]
          ELSE LET s1 == [self EXCEPT !.input_grad = r.val]
               IN  IF ~assert_same_shape(s1.input, s1.input_grad)
                   THEN [err |-> "AssertionError", self |-> s1]
                   ELSE [err |-> "none", self |-> s1]
          : r \in input_grad_hook(self, output_grad)}

\* variant: the parameter gradient assigned to self.param
ParamOperation_backward_overwrite(self, output_grad) ==
    IF self.output = Absent THEN {[err |-> "AttributeError", self |-> self]}
    ELSE IF ~assert_same_shape(self.output, output_grad)
    THEN {[err |-> "AssertionError", self |-> self]}
    ELSE UNION {
          IF r.err # "none" THEN {[err |-> r.err, self |-> self]}
          ELSE LET s1 == [self EXCEPT !.input_grad = r.val]
               IN  {IF p.err # "none" THEN [err |-> p.err, self |-> s1]
                    ELSE [err |-> "none", self |-> [s1 EXCEPT !.param = p.val]]
                    : p \in param_grad_hook(s1, output_grad)}
          : r \in input_grad_hook(self, output_grad)}

\* ParamOperation.backward of src/library/base.py
ParamOperation_backward(self, output_grad) ==
    IF self.output = Absent THEN {[err |-> "AttributeError", self |-> self]}
    ELSE IF ~assert_same_shape(self.output, output_grad)
    THEN {[err |-> "AssertionError", self |-> self]}
    ELSE UNION {
          IF r.err # "none" THEN {[err |-> r.err, self |-> self]}
          ELSE LET s1 == [self EXCEPT !.input_grad = r.val]
               IN  {IF p.err # "none" THEN [err |-> p.err, self |-> s1]
                    ELSE [err |-> "none", self |-> [s1 EXCEPT !.param_grad = p.val]]
                    : p \in param_grad_hook(s1, output_grad)}
          : r \in input_grad_hook(self, output_grad)}

\* backward of src/fundamentals/library/operations.py: the module neither
\* defines nor imports assert_same_shape, the name lookup raises first
fundamentals_backward(self, output_grad) == {[err |-> "NameError", self |-> self]}

backward_outcomes(self, output_grad) ==
    IF self.lib = "fundamentals" THEN fundamentals_backward(self, output_grad)
    ELSE IF self.cls \in ParamClasses THEN ParamOperation_backward(self, output_grad)
    ELSE Operation_backward(self, output_grad)

backward(output_grad) ==
    /\ inst.cls # "none"
    /\ \E o \in backward_outcomes(inst, output_grad) :
         /\ inst' = o.self
         /\ ret' = IF o.err = "none" THEN o.self.input_grad ELSE Absent
         /\ last' = Call("backward", inst.cls, o.err, output_grad)
    /\ UNCHANGED outputFor

(* ---------------------------- specification ---------------------------- *)
Init ==
    /\ inst = NoInstance
    /\ last = Call("none", "none", "none", Absent)
    /\ ret = Absent
    /\ outputFor = Absent

Next ==
    \/ \E lib \in Libs : \E cls \in ClassesOf(lib), p \in Params \cup {Absent} :
         Construct(cls, lib, p)
    \/ \E x \in Inputs : forward(x)
    \/ \E g \in Inputs : backward(g)

Spec == Init /\ [][Next]_vars

(* ------------- BiasAdd._param_grad as a function of its inputs --------- *)
\* the method reads self.param and its argument only; it is applied to
\* constant one-row params and every output_grad of the bounded array set
InitParamGrad ==
    /\ \E c \in 1..MaxCols, v \in 0..MaxVal :
         inst = [NewInstance("BiasAdd", "library") EXCEPT !.param = Fill(<<1, c>>, v)]
    /\ last = Call("none", "none", "none", Absent)
    /\ ret = Absent
    /\ outputFor = Absent

\* one application of the method to each pair of inputs
CallParamGrad ==
    /\ last.op = "none"
    /\ \E output_grad \in Arrays :
         LET r == BiasAdd_param_grad(inst, output_grad)
         IN  /\ last' = Call("_param_grad", inst.cls, r.err, output_grad)
             /\ ret' = r.val
    /\ UNCHANGED <<inst, outputFor>>

NextParamGrad == CallParamGrad

SpecParamGrad == InitParamGrad /\ [][NextParamGrad]_vars

(* ------------------------------- claims -------------------------------- *)
HasOutput == inst.output # Absent

\* C1: for each of WeightMultiply, BiasAdd, Sigmoid and Linear, forward(x)
\* succeeds, and a backward(g) with g.shape equal to the shape of the
\* forward output succeeds and returns an array of shape x.shape.
C1_ForwardThenBackwardSucceeds ==
    last.cls \in ConcreteClasses =>
        /\ last.op = "forward" => last.err = "none"
        /\ (last.op = "backward" /\ HasOutput /\ Shape(last.arg) = Shape(inst.output))
             => (last.err = "none" /\ Shape(ret) = Shape(inst.input))

\* C2: on every operation instance with a cached output, backward(g) with
\* g.shape different from the cached output's shape fails with the
\* assertion of assert_same_shape and returns no gradient.
C2_WrongShapeRaisesAssertion ==
    (last.op = "backward" /\ HasOutput /\ Shape(last.arg) # Shape(inst.output))
        => (last.err = "AssertionError" /\ ret = Absent)

\* C3: BiasAdd(param) succeeds and holds param when the leading dimension
\* of param is 1, and fails with the construction-time assertion otherwise.
C3_BiasAddConstruction ==
    (last.op = "init" /\ last.cls = "BiasAdd") =>
        IF Shape(last.arg)[1] = 1
        THEN last.err = "none" /\ inst.cls = "BiasAdd" /\ inst.param = last.arg
        ELSE last.err = "AssertionError" /\ inst.cls = "none"

\* C4: Linear.forward(x) returns x unchanged, and a following backward(g)
\* with g.shape = x.shape returns g unchanged.
C4_LinearIsIdentity ==
    last.cls = "Linear" =>
        /\ last.op = "forward" => (last.err = "none" /\ ret = last.arg)
        /\ (last.op = "backward" /\ inst.input # Absent
              /\ Shape(last.arg) = Shape(inst.input))
             => (last.err = "none" /\ ret = last.arg)

\* C5: a WeightMultiply with param of shape [in,out] maps an input of shape
\* [batch,in] to an output of shape [batch,out]; a following backward with
\* output_grad of shape [batch,out] returns input_grad of shape [batch,in]
\* and caches param_grad of shape [in,out].
C5_WeightMultiplyShapes ==
    last.cls = "WeightMultiply" =>
        /\ last.op = "init" => (last.err = "none" /\ inst.param = last.arg)
        /\ (last.op = "forward" /\ Shape(last.arg)[2] = Shape(inst.param)[1])
             => /\ last.err = "none"
                /\ Shape(ret) = <<Shape(last.arg)[1], Shape(inst.param)[2]>>
        /\ (last.op = "backward" /\ HasOutput /\ Shape(last.arg) = Shape(inst.output))
             => /\ last.err = "none"
                /\ Shape(ret) = Shape(inst.input)
                /\ Shape(inst.param_grad) = Shape(inst.param)

\* sum over the batch rows 1..n of column j of g
RECURSIVE BatchSum(_, _, _)
BatchSum(g, j, n) == IF n = 0 THEN 0 ELSE g[n][j] + BatchSum(g, j, n - 1)

\* C6: for a BiasAdd param of shape [1,features] and an output_grad of
\* shape [batch,features], _param_grad(output_grad) has shape [1,features]
\* and entry j is the sum over the batch rows of output_grad[i][j].
C6_ParamGradIsBatchSum ==
    (last.op = "_param_grad" /\ Shape(last.arg)[2] = Shape(inst.param)[2]) =>
        /\ last.err = "none"
        /\ Shape(ret) = <<1, Shape(inst.param)[2]>>
        /\ \A j \in 1..Shape(inst.param)[2] :
             ret[1][j] = BatchSum(last.arg, j, Len(last.arg))

\* a [MaxRows,2] output_grad filled with 1 gives the single row of MaxRows
C6_Witness ==
    /\ last.op = "_param_grad"
    /\ last.arg = Fill(<<MaxRows, 2>>, 1)
    /\ Shape(inst.param) = <<1, 2>>
    /\ ret = <<<<MaxRows, MaxRows>>>>

\* C7: the param of a ParamOperation instance is the array given to the
\* constructor, and no forward or backward call, returning or raising,
\* changes it.
C7_ParamNeverMutated ==
    [][/\ (inst.cls = "none" /\ inst'.cls \in ParamClasses) => inst'.param = last'.arg
       /\ inst.cls \in ParamClasses => inst'.param = inst.param]_vars

\* a parametric instance has gone through a full forward/backward cycle
C7_Witness ==
    /\ inst.cls \in ParamClasses
    /\ inst.param # Absent
    /\ last.op = "backward"
    /\ last.err = "none"
    /\ inst.param_grad # Absent
    /\ inst.param_grad # inst.param

\* C8 as stated: in every reachable state, also after calls that raised,
\* a cached output was computed from the currently cached input.
C8_OutputMatchesInputAlways == HasOutput => outputFor = inst.input

\* C8 amended: a forward call that returns leaves a cached output computed
\* from the cached input, and every backward call keeps that; only a
\* forward call that raises in _output breaks it, leaving the new input
\* next to the output of the earlier call.
C8_OutputMatchesInputAfterForward ==
    [][/\ (last'.op = "forward" /\ last'.err = "none")
            => (inst'.output # Absent /\ outputFor' = inst'.input
                /\ inst'.input = last'.arg /\ inst'.output = ret')
       /\ (last'.op = "backward" /\ inst.cls # "none")
            => (inst'.input = inst.input /\ inst'.output = inst.output
                /\ outputFor' = outputFor)
       /\ (last'.op = "forward" /\ last'.err # "none" /\ inst.cls # "none")
            => (inst'.input = last'.arg /\ inst'.output = inst.output)]_vars

\* a second forward call has returned on an instance that already went
\* through a backward call
C8_Witness ==
    /\ last.op = "forward"
    /\ last.err = "none"
    /\ HasOutput
    /\ outputFor = inst.input
    /\ inst.input_grad # Absent

\* C9: a backward call either fails, or the input_grad it returns and
\* caches has exactly the shape of the cached input.
C9_InputGradShapeChecked ==
    (last.op = "backward" /\ last.err = "none")
        => (ret = inst.input_grad /\ Shape(ret) = Shape(inst.input))

\* C10: a backward call whose output_grad differs in shape from the cached
\* output raises and leaves every attribute of the instance as it was.
C10_FailedCheckLeavesState ==
    [][(last'.op = "backward" /\ HasOutput /\ Shape(last'.arg) # Shape(inst.output))
         => (last'.err # "none" /\ ret' = Absent /\ inst' = inst
             /\ outputFor' = outputFor)]_vars

\* the first check has failed on an instance holding gradients of an
\* earlier backward call
C10_Witness ==
    /\ last.op = "backward"
    /\ last.err = "AssertionError"
    /\ HasOutput
    /\ Shape(last.arg) # Shape(inst.output)
    /\ inst.input_grad # Absent
    /\ inst.param_grad # Absent
====
